---- MODULE Spec2Model ----
(***************************************************************************)
(* Topic-scoped chat broker of src/main.py: the in-memory registry         *)
(* `topics`, the coroutines that read and write it under `topics_lock`,    *)
(* the per-connection handler `websocket_endpoint` and the deferred        *)
(* `expire_message` tasks.                                                 *)
(*                                                                         *)
(* Scheduling is that of one asyncio event loop: a task keeps the CPU      *)
(* until it awaits something that really suspends (receive_text,           *)
(* send_text, close, sleep).  `async with topics_lock` suspends only when  *)
(* the lock is held, and no lock body of main.py contains an await, so a   *)
(* task that is between two suspension points is never interleaved with    *)
(* another one.  Each label of `pc` below is one such point or one step of *)
(* a lock region; OnCpu says which labels are not suspension points.       *)
(***************************************************************************)
EXTENDS Integers, Sequences, FiniteSets, TLC

\* ---------------------------------------------------------------- bounds
MaxMsgs == 2         \* chat frames the clients send in Spec
StartMsgs == 1       \* chat frames the clients send in SpecStart
TimedMsgs == 1       \* chat frames the clients send in SpecTimed
FanoutMsgs == 1      \* chat frames the clients send in SpecFanout
RoomsMsgs == 1       \* chat frames the clients send in SpecRooms
RegistryMsgs == 1    \* messages stored in SpecRegistry
MaxAge == 32         \* the clock of a message stops here
MaxMembers == 3      \* members per topic in SpecRegistry

\* ------------------------------------------------------ program constants
MESSAGE_EXPIRY_SECONDS == 30

\* The connection handles, and those that open in Spec.
Conns == {1, 2, 3}
MainConns == {1, 2}
UserNames == {"bob", ""}
TopicNames == {"sports", ""}
Bodies == {"hi"}

\* Python's None for the handler's `username` and `topic` locals.
None == "<None>"
\* Python truthiness of `topic and username` operands: None and "" are falsy.
Truthy(s) == s # None /\ s # ""

\* Task identities: one handler task per connection, one task per expiry.
NoTask == <<>>
WsTask(c) == <<"ws", c>>
ExpTask(id) == <<"expire", id>>

VARIABLES
    topics,     \* the registry: topic name -> [users, messages]
    lock,       \* holder of topics_lock, or NoTask
    pc,         \* per connection: where its handler task stands
    username,   \* per connection: the handler's local `username`
    topic,      \* per connection: the handler's local `topic`
    frame,      \* per connection: the text frame being handled
    payload,    \* per connection: the handler's local `payload`
    bc,         \* per connection: the running broadcast_to_topic call
    alive,      \* per connection: the transport is still connected
    wire,       \* the send_text call made by the last step, if it made one
    nextId,     \* number of message ids drawn from uuid4 so far
    quota,      \* chat frames the clients will still send
    timers,     \* the expire_message tasks created and not finished
    clock,      \* per stored message id: time units since it was stamped
    call        \* registry harness: the last direct call and its outcome

vars == <<topics, lock, pc, username, topic, frame, payload, bc, alive, wire,
          nextId, quota, timers, clock, call>>

\* ------------------------------------------------------- registry values
\* topics[t].users is a dict in insertion order: a sequence of (name, ws).
Names(us) == {us[i].name : i \in 1..Len(us)}
Handles(us) == {us[i].ws : i \in 1..Len(us)}
HandleOf(us, u) == us[CHOOSE i \in 1..Len(us) : us[i].name = u].ws

\* users[username] = websocket
SetUser(us, u, ws) ==
    IF u \in Names(us)
    THEN [i \in 1..Len(us) |-> IF us[i].name = u THEN [name |-> u, ws |-> ws] ELSE us[i]]
    ELSE Append(us, [name |-> u, ws |-> ws])

\* f"{base_username}#{i}"
Suffixed(base, i) == base \o "#" \o ToString(i)

RECURSIVE NextSuffix(_, _, _)
NextSuffix(base, existing, i) ==
    IF Suffixed(base, i) \in existing THEN NextSuffix(base, existing, i + 1) ELSE i

\* Mutant of ensure_unique_username: the suffix search starts at 1.
ensure_unique_from_one(tps, t, base) ==
    IF t \notin DOMAIN tps THEN base
    ELSE LET existing == Names(tps[t].users)
         IN  IF base \notin existing THEN base
             ELSE Suffixed(base, NextSuffix(base, existing, 1))

ensure_unique_username(tps, t, base) ==
    IF t \notin DOMAIN tps THEN base
    ELSE LET existing == Names(tps[t].users)
         IN  IF base \notin existing THEN base
             ELSE Suffixed(base, NextSuffix(base, existing, 2))

Put(tps, t, entry) == [x \in DOMAIN tps \cup {t} |-> IF x = t THEN entry ELSE tps[x]]
Drop(tps, t) == [x \in DOMAIN tps \ {t} |-> tps[x]]

\* Mutant of add_user_to_topic: an absent topic is not created.
add_user_existing_only(tps, t, u, ws) ==
    IF t \notin DOMAIN tps THEN tps
    ELSE Put(tps, t, [tps[t] EXCEPT !.users = SetUser(@, u, ws)])

add_user_to_topic(tps, t, u, ws) ==
    LET cur == IF t \in DOMAIN tps THEN tps[t] ELSE [users |-> <<>>, messages |-> <<>>]
    IN  Put(tps, t, [cur EXCEPT !.users = SetUser(cur.users, u, ws)])

\* remove_user_from_topic, first half: users.pop(username, None)
PopUser(tps, t, u) ==
    IF t \in DOMAIN tps
    THEN [tps EXCEPT ![t].users = SelectSeq(@, LAMBDA e : e.name # u)]
    ELSE tps

\* Mutants of PopTopicIfEmpty: the empty topic is kept; the topic is dropped
\* without the emptiness test.
PopTopicNever(tps, t) == tps
PopTopicAlways(tps, t) == IF t \in DOMAIN tps THEN Drop(tps, t) ELSE tps

\* remove_user_from_topic, second half: if not users: topics.pop(topic, None)
PopTopicIfEmpty(tps, t) ==
    IF t \in DOMAIN tps /\ tps[t].users = <<>> THEN Drop(tps, t) ELSE tps

remove_user_from_topic(tps, t, u) == PopTopicIfEmpty(PopUser(tps, t, u), t)

\* Mutant of StoreMessage: the message is put in front.
StoreMessageFirst(tps, t, m) ==
    IF t \in DOMAIN tps THEN [tps EXCEPT ![t].messages = <<m>> \o @] ELSE tps

\* topics[topic]["messages"].append(payload), if topic in topics
StoreMessage(tps, t, m) ==
    IF t \in DOMAIN tps THEN [tps EXCEPT ![t].messages = Append(@, m)] ELSE tps

\* Mutant of ExpireBody: the oldest message goes, whatever its id.
ExpireOldest(tps, t, id) ==
    IF t \notin DOMAIN tps \/ tps[t].messages = <<>> THEN tps
    ELSE [tps EXCEPT ![t].messages = Tail(@)]

\* expire_message after its sleep
ExpireBody(tps, t, id) ==
    IF t \notin DOMAIN tps THEN tps
    ELSE [tps EXCEPT ![t].messages = SelectSeq(@, LAMBDA m : m.id # id)]

\* The members of the topics ts, one topic after the other.
RECURSIVE UsersOf(_, _)
UsersOf(tps, ts) ==
    IF ts = {} THEN <<>>
    ELSE LET t == CHOOSE t \in ts : TRUE
         IN  tps[t].users \o UsersOf(tps, ts \ {t})
\* Mutant of Recipients: the snapshot is taken over all topics.
RecipientsEverywhere(tps, t, exclude) ==
    IF t \notin DOMAIN tps THEN <<>>
    ELSE SelectSeq(UsersOf(tps, DOMAIN tps), LAMBDA e : e.name # exclude)

\* Mutant of Recipients: the snapshot keeps the excluded name.
RecipientsAll(tps, t, exclude) ==
    IF t \notin DOMAIN tps THEN <<>> ELSE tps[t].users

\* broadcast_to_topic's snapshot
Recipients(tps, t, exclude) ==
    IF t \notin DOMAIN tps THEN <<>>
    ELSE SelectSeq(tps[t].users, LAMBDA e : e.name # exclude)

MsgIds(ms) == {ms[i].id : i \in 1..Len(ms)}
StoredIds(tps) == UNION {MsgIds(tps[t].messages) : t \in DOMAIN tps}

\* ----------------------------------------------------------------- frames
\* A text frame: its raw text and what json.loads makes of it ("dict", a JSON
\* value that is no dict: "other", or a parse error: "invalid"), with the
\* values of the keys the handler looks at.  Absent is what dict.get returns
\* for a missing key.
Str(v) == [str |-> TRUE, val |-> v]
NotStr(v) == [str |-> FALSE, val |-> v]
Absent == NotStr(None)
Frame(raw, json, keys, u, t, m) ==
    [raw |-> raw, json |-> json, keys |-> keys, username |-> u, topic |-> t, message |-> m]
NoFrame == Frame("", "invalid", {}, Absent, Absent, Absent)

JoinFrame(u, t) == Frame("{username,topic}", "dict", {"username", "topic"}, Str(u), Str(t), Absent)
BadJoinFrames ==
    { Frame("hello", "invalid", {}, Absent, Absent, Absent),
      Frame("{username}", "dict", {"username"}, Str("bob"), Absent, Absent),
      Frame("{username:7,topic}", "dict", {"username", "topic"}, NotStr("7"), Str("sports"), Absent) }
JoinFrames == {JoinFrame(u, t) : u \in UserNames, t \in TopicNames} \cup BadJoinFrames

ListFrame == Frame("/list", "invalid", {}, Absent, Absent, Absent)
\* The command with surrounding whitespace.
PaddedListFrame == Frame(" /list ", "invalid", {}, Absent, Absent, Absent)
ChatJson(b) == Frame("{message}", "dict", {"message"}, Absent, Absent, Str(b))
NoMessageJson == Frame("{}", "dict", {}, Absent, Absent, Absent)
\* Text that json.loads parses to a value that is no dict.
ScalarJson == Frame("7", "other", {}, Absent, Absent, Absent)
RawText(b) == Frame(b, "invalid", {}, Absent, Absent, Absent)
LoopFrames == {ListFrame, PaddedListFrame, NoMessageJson, ScalarJson} \cup {ChatJson(b) : b \in Bodies}
                  \cup {RawText(b) : b \in Bodies}

\* Mutant of JoinValid: any JSON object passes.
JoinValidAnyDict(f) == f.json = "dict"

\* lines 118-122: json.loads, data.get and the isinstance checks
JoinValid(f) == f.json = "dict" /\ f.username.str /\ f.topic.str
\* str.strip() on the texts of the frames above: only one has whitespace at
\* its ends.
Strip(s) == IF s = " /list " THEN "/list" ELSE s
\* Mutant of IsList: the text is compared as it came.
IsListExact(f) == f.raw = "/list"
\* line 148
IsList(f) == Strip(f.raw) = "/list"
\* lines 162-163: json.loads succeeded
ParsesAsJson(f) == f.json # "invalid"
HasMessage(f) == f.json = "dict" /\ "message" \in f.keys
\* lines 165 and 175
BodyOf(f) == IF HasMessage(f) THEN f.message.val ELSE f.raw

\* --------------------------------------------------------------- payloads
\* line 125
JoinErrorPayload ==
    [error |-> "Invalid initial payload. Send JSON: {\"username\":\"alice\",\"topic\":\"sports\"}"]
JoinAck(u, t) == [status |-> "joined", username |-> u, topic |-> t]
Notice(u, what) == [system |-> TRUE, message |-> u \o " " \o what \o " the topic"]
\* Mutant of ChatPayload: the id is not a fresh one.
ChatPayloadSameId(id, u, b) == [id |-> 1, username |-> u, message |-> b]
\* lines 66-71 and 178-180; the timestamp is left out
ChatPayload(id, u, b) == [id |-> id, username |-> u, message |-> b]
DeliveredAck(id) == [status |-> "delivered", message_id |-> id]
MsgErrorPayload == [error |-> "JSON payload must contain 'message' field"]
ListLine(tps, t) == t \o " (" \o ToString(Len(tps[t].users)) \o " users)"
ListPayload(tps) == [active_topics |-> {ListLine(tps, t) : t \in DOMAIN tps}]
NoMsg == ChatPayload(0, None, "")

NoBc == [payload |-> NoMsg, exclude |-> None, topic |-> None, recipients |-> <<>>,
         snapshot |-> <<>>, failed |-> {}, ret |-> "closed"]

\* ------------------------------------------------------------- scheduling
CpuLabels ==
    { "resolve_acquire", "resolve_body", "add_acquire", "add_body",
      "bcast_acquire", "bcast_snapshot", "list_acquire", "list_body",
      "store_acquire", "store_body",
      "remove_acquire", "remove_pop_user", "remove_pop_topic" }
\* Mutant of OnCpu: the handler is suspended between ensure_unique_username
\* and add_user_to_topic.
OnCpuButJoinYields(l) == l \in CpuLabels \ {"add_acquire"}

\* TRUE for the labels a task passes without suspending.
OnCpu(l) == l \in CpuLabels
\* Mutant of Idle: the handlers wait for the expiry tasks, as with
\* `await expire_message(...)` in place of create_task.
IdleAfterExpiries ==
    /\ \A d \in Conns : pc[d] \notin CpuLabels
    /\ timers = {}

\* No task is between two suspension points: the event loop picks the next one.
Idle ==
    /\ \A d \in Conns : ~OnCpu(pc[d])
    /\ \A tm \in timers : tm.stage # "body"
\* The task of connection c takes its next step from label l.
At(c, l) == pc[c] = l /\ (OnCpu(l) \/ Idle)

\* line 203: the finally block's test
CleanupPc(c) == IF Truthy(topic[c]) /\ Truthy(username[c]) THEN "remove_acquire" ELSE "closed"

\* ws.send_text on a handle: returns normally when the transport is up, and
\* raises once the client has disconnected or the server has closed it.
SendOutcomes(ws) == IF alive[ws] THEN {"ok"} ELSE {"raises"}
SendText(ws, p, outcome) == wire' = [to |-> ws, payload |-> p, ok |-> outcome = "ok"]
NoSend == [to |-> 0, payload |-> NoMsg, ok |-> FALSE]
\* A step that calls no send_text.
Quiet == wire' = NoSend

\* SpecRegistry: no direct call has been made.
NoCall == [op |-> "none", topic |-> None, username |-> None, flip |-> FALSE]

Init ==
    /\ topics = <<>>
    /\ lock = NoTask
    /\ pc = [c \in Conns |-> IF c \in MainConns THEN "recv_join" ELSE "closed"]
    /\ username = [c \in Conns |-> None]
    /\ topic = [c \in Conns |-> None]
    /\ frame = [c \in Conns |-> NoFrame]
    /\ payload = [c \in Conns |-> NoMsg]
    /\ bc = [c \in Conns |-> NoBc]
    /\ alive = [c \in Conns |-> c \in MainConns]
    /\ wire = NoSend
    /\ nextId = 0
    /\ quota = MaxMsgs
    /\ timers = {}
    /\ clock = <<>>
    /\ call = NoCall

Goto(c, l) == pc' = [pc EXCEPT ![c] = l]
\* The handlers about to send the error of line 168: each of them stores its
\* frame as a message if that send raises, so one unit of quota is kept for it.
Reserved == Cardinality({d \in Conns : pc[d] = "send_msg_error"})
StartBroadcast(c, p, exclude, ret) ==
    bc' = [bc EXCEPT ![c] = [NoBc EXCEPT !.payload = p, !.exclude = exclude,
                                         !.topic = topic[c], !.ret = ret]]
\* The clocks of the messages stored in tps: a new message starts at 0.
ClockOf(tps) == [id \in StoredIds(tps) |-> IF id \in DOMAIN clock THEN clock[id] ELSE 0]

\* ------------------------------------------------ websocket_endpoint: join
\* line 116: the first frame arrives, or the client is gone.  Connections are
\* numbered in the order in which their first receive_text returns.
RecvJoin(c) ==
    /\ At(c, "recv_join")
    /\ \A d \in Conns : d < c => pc[d] # "recv_join"
    /\ IF alive[c]
       THEN \E f \in JoinFrames :
              /\ frame' = [frame EXCEPT ![c] = f]
              /\ Goto(c, IF JoinValid(f) THEN "resolve_acquire" ELSE "send_join_error")
       ELSE /\ Goto(c, CleanupPc(c))
            /\ frame' = frame
    /\ Quiet
    /\ UNCHANGED <<topics, lock, username, topic, payload, bc, alive, nextId, quota, timers, clock, call>>

\* lines 125-128
SendJoinError(c) ==
    /\ At(c, "send_join_error")
    /\ \E o \in SendOutcomes(c) :
         /\ SendText(c, JoinErrorPayload, o)
         /\ Goto(c, IF o = "ok" THEN "close" ELSE CleanupPc(c))
    /\ frame' = [frame EXCEPT ![c] = NoFrame]
    /\ UNCHANGED <<topics, lock, username, topic, payload, bc, alive, nextId, quota,
                   timers, clock, call>>

\* line 127, then the return through finally
Close(c) ==
    /\ At(c, "close")
    /\ alive' = [alive EXCEPT ![c] = FALSE]
    /\ Goto(c, CleanupPc(c))
    /\ Quiet
    /\ UNCHANGED <<topics, lock, username, topic, frame, payload, bc, nextId, quota, timers, clock, call>>

\* line 31
ResolveAcquire(c) ==
    /\ At(c, "resolve_acquire")
    /\ lock = NoTask
    /\ lock' = WsTask(c)
    /\ Goto(c, "resolve_body")
    /\ Quiet
    /\ UNCHANGED <<topics, username, topic, frame, payload, bc, alive, nextId, quota, timers, clock, call>>

\* lines 32-42 and 131-132
ResolveBody(c) ==
    /\ At(c, "resolve_body")
    /\ username' = [username EXCEPT ![c] =
                       ensure_unique_username(topics, frame[c].topic.val, frame[c].username.val)]
    /\ topic' = [topic EXCEPT ![c] = frame[c].topic.val]
    /\ lock' = NoTask
    /\ Goto(c, "add_acquire")
    /\ Quiet
    /\ UNCHANGED <<topics, frame, payload, bc, alive, nextId, quota, timers,
                   clock, call>>

\* line 46
AddAcquire(c) ==
    /\ At(c, "add_acquire")
    /\ lock = NoTask
    /\ lock' = WsTask(c)
    /\ Goto(c, "add_body")
    /\ Quiet
    /\ UNCHANGED <<topics, username, topic, frame, payload, bc, alive, nextId, quota, timers, clock, call>>

\* lines 47-50
AddBody(c) ==
    /\ At(c, "add_body")
    /\ topics' = add_user_to_topic(topics, topic[c], username[c], c)
    /\ lock' = NoTask
    /\ frame' = [frame EXCEPT ![c] = NoFrame]
    /\ Goto(c, "send_join_ack")
    /\ Quiet
    /\ UNCHANGED <<username, topic, payload, bc, alive, nextId, quota, timers,
                   clock, call>>

\* lines 138-142
SendJoinAck(c) ==
    /\ At(c, "send_join_ack")
    /\ \E o \in SendOutcomes(c) :
         /\ SendText(c, JoinAck(username[c], topic[c]), o)
         /\ IF o = "ok"
            THEN /\ Goto(c, "bcast_acquire")
                 /\ StartBroadcast(c, Notice(username[c], "joined"), username[c], "recv")
            ELSE /\ Goto(c, CleanupPc(c))
                 /\ bc' = bc
    /\ UNCHANGED <<topics, lock, username, topic, frame, payload, alive, nextId, quota,
                   timers, clock, call>>

\* ------------------------------------------------------ broadcast_to_topic
\* line 90
BcastAcquire(c) ==
    /\ At(c, "bcast_acquire")
    /\ lock = NoTask
    /\ lock' = WsTask(c)
    /\ Goto(c, "bcast_snapshot")
    /\ Quiet
    /\ UNCHANGED <<topics, username, topic, frame, payload, bc, alive, nextId, quota, timers, clock, call>>

\* Mutant of LockAfterSnapshot: the send loop runs inside the lock region.
LockKeptForSends(c) == WsTask(c)
\* lines 90-96: the `async with` block ends before the sends
LockAfterSnapshot(c) == NoTask

\* lines 91-94: the snapshot; with nobody to send to the call returns at once
BcastSnapshot(c) ==
    /\ At(c, "bcast_snapshot")
    /\ LET rs == Recipients(topics, bc[c].topic, bc[c].exclude)
       IN  /\ bc' = [bc EXCEPT ![c] = IF rs = <<>> THEN NoBc
                                       ELSE [@ EXCEPT !.recipients = rs, !.snapshot = rs]]
           /\ Goto(c, IF rs = <<>> THEN bc[c].ret ELSE "bcast_send")
    /\ lock' = LockAfterSnapshot(c)
    /\ Quiet
    /\ UNCHANGED <<topics, username, topic, frame, payload, alive, nextId, quota,
                   timers, clock, call>>

\* Mutant of AfterSend: a send that raises ends the broadcast and the handler.
AfterSendRaising(c, rest, o) ==
    IF o = "raises" THEN CleanupPc(c)
    ELSE IF rest = <<>> THEN bc[c].ret ELSE "bcast_send"

\* lines 98-102: the except clause swallows what send_text raises, so the loop
\* goes on to the next recipient and the call returns after the last one.
AfterSend(c, rest, o) == IF rest = <<>> THEN bc[c].ret ELSE "bcast_send"

\* lines 98-102: one iteration of the send loop
BcastSend(c) ==
    /\ At(c, "bcast_send")
    /\ LET r == Head(bc[c].recipients)
           rest == Tail(bc[c].recipients)
       IN  \E o \in SendOutcomes(r.ws) :
             /\ SendText(r.ws, bc[c].payload, o)
             /\ bc' = [bc EXCEPT ![c] =
                          IF rest = <<>> THEN NoBc
                          ELSE [@ EXCEPT !.recipients = rest,
                                         !.failed = IF o = "ok" THEN @ ELSE @ \cup {r.ws}]]
             /\ Goto(c, AfterSend(c, rest, o))
    /\ UNCHANGED <<topics, lock, username, topic, frame, payload, alive, nextId, quota,
                   timers, clock, call>>

\* ------------------------------------------- websocket_endpoint: main loop
\* lines 146-180: the next frame arrives and is dispatched, or the client is
\* gone.  A chat frame draws a fresh uuid4 and builds the payload.  A frame
\* that may become a message is taken only while quota is left for it.
Recv(c) ==
    /\ At(c, "recv")
    /\ IF alive[c]
       THEN \E f \in LoopFrames :
                 /\ frame' = [frame EXCEPT ![c] = f]
                 /\ IF IsList(f)
                    THEN /\ Goto(c, "list_acquire")
                         /\ UNCHANGED <<payload, nextId, quota>>
                    ELSE IF ParsesAsJson(f) /\ ~HasMessage(f)
                    THEN /\ quota > Reserved
                         /\ Goto(c, "send_msg_error")
                         /\ UNCHANGED <<payload, nextId, quota>>
                    ELSE /\ quota > Reserved
                         /\ quota' = quota - 1
                         /\ nextId' = nextId + 1
                         /\ payload' = [payload EXCEPT ![c] =
                                           ChatPayload(nextId + 1, username[c], BodyOf(f))]
                         /\ Goto(c, "store_acquire")
       ELSE /\ Goto(c, CleanupPc(c))
            /\ UNCHANGED <<frame, payload, nextId, quota>>
    /\ Quiet
    /\ UNCHANGED <<topics, lock, username, topic, bc, alive, timers, clock, call>>

\* line 150; msg_text is not read again after the dispatch
ListAcquire(c) ==
    /\ At(c, "list_acquire")
    /\ lock = NoTask
    /\ lock' = WsTask(c)
    /\ frame' = [frame EXCEPT ![c] = NoFrame]
    /\ Goto(c, "list_body")
    /\ Quiet
    /\ UNCHANGED <<topics, username, topic, payload, bc, alive, nextId, quota, timers, clock, call>>

\* lines 151-154
ListBody(c) ==
    /\ At(c, "list_body")
    /\ payload' = [payload EXCEPT ![c] = ListPayload(topics)]
    /\ lock' = NoTask
    /\ Goto(c, "send_list")
    /\ Quiet
    /\ UNCHANGED <<topics, username, topic, frame, bc, alive, nextId, quota,
                   timers, clock, call>>

\* lines 156-157
SendList(c) ==
    /\ At(c, "send_list")
    /\ \E o \in SendOutcomes(c) :
         /\ SendText(c, payload[c], o)
         /\ Goto(c, IF o = "ok" THEN "recv" ELSE CleanupPc(c))
    /\ payload' = [payload EXCEPT ![c] = NoMsg]
    /\ frame' = [frame EXCEPT ![c] = NoFrame]
    /\ UNCHANGED <<topics, lock, username, topic, bc, alive, nextId, quota, timers,
                   clock, call>>

\* lines 161-171: the send of line 168 is inside the try of line 161, so what
\* it raises (WebSocketDisconnect included) is caught by the `except Exception`
\* of line 170 and the handler goes on to line 173 with is_json False.
AfterMsgError(c, o) == IF o = "ok" THEN "recv" ELSE "store_acquire"

\* lines 168-180: the error is sent and the loop continues; if the send
\* raises, the frame is handled as raw text: a uuid4 is drawn and the payload
\* is built with msg_text as its body.
SendMsgError(c) ==
    /\ At(c, "send_msg_error")
    /\ \E o \in SendOutcomes(c) :
         /\ SendText(c, MsgErrorPayload, o)
         /\ Goto(c, AfterMsgError(c, o))
         /\ IF AfterMsgError(c, o) = "store_acquire"
            THEN /\ quota' = quota - 1
                 /\ nextId' = nextId + 1
                 /\ payload' = [payload EXCEPT ![c] =
                                   ChatPayload(nextId + 1, username[c], frame[c].raw)]
            ELSE UNCHANGED <<payload, nextId, quota>>
    /\ frame' = [frame EXCEPT ![c] = NoFrame]
    /\ UNCHANGED <<topics, lock, username, topic, bc, alive, timers, clock, call>>

\* line 183; msg_text is not read again after the dispatch
StoreAcquire(c) ==
    /\ At(c, "store_acquire")
    /\ lock = NoTask
    /\ lock' = WsTask(c)
    /\ frame' = [frame EXCEPT ![c] = NoFrame]
    /\ Goto(c, "store_body")
    /\ Quiet
    /\ UNCHANGED <<topics, username, topic, payload, bc, alive, nextId, quota, timers, clock, call>>

\* lines 184-188
StoreBody(c) ==
    /\ At(c, "store_body")
    /\ topics' = StoreMessage(topics, topic[c], payload[c])
    /\ clock' = ClockOf(topics')
    /\ lock' = NoTask
    /\ StartBroadcast(c, payload[c], username[c], "send_ack")
    /\ Goto(c, "bcast_acquire")
    /\ Quiet
    /\ UNCHANGED <<username, topic, frame, payload, alive, nextId, quota,
                   timers, call>>

\* lines 191-195: the ack, and only then create_task(expire_message(...))
SendAck(c) ==
    /\ At(c, "send_ack")
    /\ \E o \in SendOutcomes(c) :
         /\ SendText(c, DeliveredAck(payload[c].id), o)
         /\ IF o = "ok"
            THEN /\ timers' = timers \cup {[topic |-> topic[c], id |-> payload[c].id,
                                           remaining |-> MESSAGE_EXPIRY_SECONDS,
                                           stage |-> "sleep"]}
                 /\ Goto(c, "recv")
            ELSE /\ timers' = timers
                 /\ Goto(c, CleanupPc(c))
    /\ payload' = [payload EXCEPT ![c] = NoMsg]
    /\ frame' = [frame EXCEPT ![c] = NoFrame]
    /\ UNCHANGED <<topics, lock, username, topic, bc, alive, nextId, quota, clock, call>>

\* ------------------------------------------ websocket_endpoint: cleanup
\* line 54
RemoveAcquire(c) ==
    /\ At(c, "remove_acquire")
    /\ lock = NoTask
    /\ lock' = WsTask(c)
    /\ Goto(c, "remove_pop_user")
    /\ Quiet
    /\ UNCHANGED <<topics, username, topic, frame, payload, bc, alive, nextId, quota, timers, clock, call>>

\* lines 55-59
RemovePopUser(c) ==
    /\ At(c, "remove_pop_user")
    /\ topics' = PopUser(topics, topic[c], username[c])
    /\ Goto(c, "remove_pop_topic")
    /\ Quiet
    /\ UNCHANGED <<lock, username, topic, frame, payload, bc, alive, nextId, quota, timers, clock, call>>

\* lines 60-63, then lines 206-207
RemovePopTopic(c) ==
    /\ At(c, "remove_pop_topic")
    /\ topics' = PopTopicIfEmpty(topics, topic[c])
    /\ clock' = ClockOf(topics')
    /\ lock' = NoTask
    /\ StartBroadcast(c, Notice(username[c], "left"), None, "closed")
    /\ Goto(c, "bcast_acquire")
    /\ Quiet
    /\ UNCHANGED <<username, topic, frame, payload, alive, nextId, quota,
                   timers, call>>

\* The client goes away (or the transport breaks) while its handler waits.
Disconnect(c) ==
    /\ Idle
    /\ alive[c]
    /\ pc[c] # "closed"
    /\ alive' = [alive EXCEPT ![c] = FALSE]
    /\ Quiet
    /\ UNCHANGED <<topics, lock, pc, username, topic, frame, payload, bc, nextId, quota, timers, clock, call>>

\* --------------------------------------------------------- expire_message
\* line 76, without a metric clock: the sleep of a pending task runs out.
Elapse(tm) ==
    /\ Idle
    /\ tm \in timers /\ tm.stage = "sleep" /\ tm.remaining > 0
    /\ timers' = (timers \ {tm}) \cup {[tm EXCEPT !.remaining = 0]}
    /\ Quiet
    /\ UNCHANGED <<topics, lock, pc, username, topic, frame, payload, bc, alive, nextId, quota, clock, call>>

\* line 76, with a metric clock: one time unit passes.  A sleep that has run
\* out wakes its task before the next unit passes.
Tick ==
    /\ Idle
    /\ \A tm \in timers : tm.remaining > 0
    /\ timers # {} \/ \E id \in DOMAIN clock : clock[id] < MaxAge
    /\ timers' = {[tm EXCEPT !.remaining = @ - 1] : tm \in timers}
    /\ clock' = [id \in DOMAIN clock |-> IF clock[id] < MaxAge THEN clock[id] + 1 ELSE MaxAge]
    /\ Quiet
    /\ UNCHANGED <<topics, lock, pc, username, topic, frame, payload, bc, alive, nextId, quota, call>>

\* line 77
ExpireAcquire(tm) ==
    /\ Idle
    /\ tm \in timers /\ tm.stage = "sleep" /\ tm.remaining = 0
    /\ lock = NoTask
    /\ lock' = ExpTask(tm.id)
    /\ timers' = (timers \ {tm}) \cup {[tm EXCEPT !.stage = "body"]}
    /\ Quiet
    /\ UNCHANGED <<topics, pc, username, topic, frame, payload, bc, alive, nextId, quota, clock, call>>

\* lines 78-85
ExpireRun(tm) ==
    /\ tm \in timers /\ tm.stage = "body"
    /\ topics' = ExpireBody(topics, tm.topic, tm.id)
    /\ clock' = ClockOf(topics')
    /\ lock' = NoTask
    /\ timers' = timers \ {tm}
    /\ Quiet
    /\ UNCHANGED <<pc, username, topic, frame, payload, bc, alive, nextId, quota, call>>

\* ------------------------------------------------------ the specifications
JoinPhase(c) ==
    \/ RecvJoin(c) \/ SendJoinError(c) \/ Close(c)
    \/ ResolveAcquire(c) \/ ResolveBody(c) \/ AddAcquire(c) \/ AddBody(c)
    \/ SendJoinAck(c)

Established(c) ==
    \/ BcastAcquire(c) \/ BcastSnapshot(c) \/ BcastSend(c)
    \/ Recv(c) \/ ListAcquire(c) \/ ListBody(c) \/ SendList(c) \/ SendMsgError(c)
    \/ StoreAcquire(c) \/ StoreBody(c) \/ SendAck(c)
    \/ RemoveAcquire(c) \/ RemovePopUser(c) \/ RemovePopTopic(c)

Running ==
    \/ \E c \in Conns : Established(c)
    \/ \E c \in Conns : Disconnect(c)
    \/ \E tm \in timers : ExpireAcquire(tm)
    \/ \E tm \in timers : ExpireRun(tm)

\* The broker from its start, MainConns clients connecting; time is not measured.
Next ==
    \/ \E c \in Conns : JoinPhase(c)
    \/ Running
    \/ \E tm \in timers : Elapse(tm)

Spec == Init /\ [][Next]_vars

\* The broker from its start with fewer chat frames.
InitStart ==
    /\ topics = <<>>
    /\ lock = NoTask
    /\ pc = [c \in Conns |-> IF c \in MainConns THEN "recv_join" ELSE "closed"]
    /\ username = [c \in Conns |-> None]
    /\ topic = [c \in Conns |-> None]
    /\ frame = [c \in Conns |-> NoFrame]
    /\ payload = [c \in Conns |-> NoMsg]
    /\ bc = [c \in Conns |-> NoBc]
    /\ alive = [c \in Conns |-> c \in MainConns]
    /\ wire = NoSend
    /\ nextId = 0
    /\ quota = StartMsgs
    /\ timers = {}
    /\ clock = <<>>
    /\ call = NoCall
SpecStart == InitStart /\ [][Next]_vars

\* n clients have joined "sports", all asking for the name "bob", and their
\* handlers wait for frames; m more clients connect, and the clients will send
\* q chat frames.
InitJoined(n, m, q) ==
    /\ topics = [t \in {"sports"} |->
                   [users |-> [i \in 1..n |->
                                 [name |-> IF i = 1 THEN "bob" ELSE Suffixed("bob", i),
                                  ws |-> i]],
                    messages |-> <<>>]]
    /\ lock = NoTask
    /\ pc = [c \in Conns |-> IF c <= n THEN "recv"
                              ELSE IF c <= n + m THEN "recv_join" ELSE "closed"]
    /\ username = [c \in Conns |-> IF c = 1 THEN "bob"
                                    ELSE IF c <= n THEN Suffixed("bob", c) ELSE None]
    /\ topic = [c \in Conns |-> IF c <= n THEN "sports" ELSE None]
    /\ frame = [c \in Conns |-> NoFrame]
    /\ payload = [c \in Conns |-> NoMsg]
    /\ bc = [c \in Conns |-> NoBc]
    /\ alive = [c \in Conns |-> c <= n + m]
    /\ wire = NoSend
    /\ nextId = 0
    /\ quota = q
    /\ timers = {}
    /\ clock = <<>>
    /\ call = NoCall

\* Two members and a metric clock.
InitTimed == InitJoined(2, 0, TimedMsgs)
NextTimed == Running \/ Tick
SpecTimed == InitTimed /\ [][NextTimed]_vars

\* Three members: a broadcast has more than one recipient.
InitFanout == InitJoined(3, 0, FanoutMsgs)
NextFanout == Running \/ \E tm \in timers : Elapse(tm)
SpecFanout == InitFanout /\ [][NextFanout]_vars

\* Two members of "sports" and one member of "news": a message has readers
\* in its own topic while another topic has a member.
InitRooms ==
    /\ topics = [t \in {"sports", "news"} |->
                   [users |-> IF t = "sports"
                              THEN <<[name |-> "bob", ws |-> 1], [name |-> "bob#2", ws |-> 2]>>
                              ELSE <<[name |-> "bob", ws |-> 3]>>,
                    messages |-> <<>>]]
    /\ lock = NoTask
    /\ pc = [c \in Conns |-> "recv"]
    /\ username = [c \in Conns |-> IF c = 2 THEN "bob#2" ELSE "bob"]
    /\ topic = [c \in Conns |-> IF c = 3 THEN "news" ELSE "sports"]
    /\ frame = [c \in Conns |-> NoFrame]
    /\ payload = [c \in Conns |-> NoMsg]
    /\ bc = [c \in Conns |-> NoBc]
    /\ alive = [c \in Conns |-> TRUE]
    /\ wire = NoSend
    /\ nextId = 0
    /\ quota = RoomsMsgs
    /\ timers = {}
    /\ clock = <<>>
    /\ call = NoCall
SpecRooms == InitRooms /\ [][NextFanout]_vars

\* ---------------------------------------- the registry operations, directly
\* The coroutines of lines 29-85 called one at a time, as a test of the
\* registry would call them, with any arguments.
Called(op, t, u) ==
    call' = [op |-> op, topic |-> t, username |-> u, flip |-> ~call.flip]

\* lines 131-135: ensure_unique_username, then add_user_to_topic
CallJoin(t, base, ws) ==
    /\ t \in DOMAIN topics => Len(topics[t].users) < MaxMembers
    /\ LET u == ensure_unique_username(topics, t, base)
       IN  /\ topics' = add_user_to_topic(topics, t, u, ws)
           /\ Called("join", t, base)
    /\ UNCHANGED <<lock, pc, username, topic, frame, payload, bc, alive, wire, nextId,
                   quota, timers, clock>>

\* remove_user_from_topic
CallLeave(t, u) ==
    /\ topics' = remove_user_from_topic(topics, t, u)
    /\ Called("leave", t, u)
    /\ UNCHANGED <<lock, pc, username, topic, frame, payload, bc, alive, wire, nextId,
                   quota, timers, clock>>

\* lines 178-185
CallStore(t, u) ==
    /\ quota > 0
    /\ quota' = quota - 1
    /\ nextId' = nextId + 1
    /\ topics' = StoreMessage(topics, t, ChatPayload(nextId + 1, u, "hi"))
    /\ Called("store", t, u)
    /\ UNCHANGED <<lock, pc, username, topic, frame, payload, bc, alive, wire, timers,
                   clock>>

\* The names a caller may pass: those clients ask for and those in use.
KnownNames == {"bob"} \cup UNION {Names(topics[t].users) : t \in DOMAIN topics}

InitRegistry ==
    /\ topics = <<>>
    /\ lock = NoTask
    /\ pc = [c \in Conns |-> "closed"]
    /\ username = [c \in Conns |-> None]
    /\ topic = [c \in Conns |-> None]
    /\ frame = [c \in Conns |-> NoFrame]
    /\ payload = [c \in Conns |-> NoMsg]
    /\ bc = [c \in Conns |-> NoBc]
    /\ alive = [c \in Conns |-> TRUE]
    /\ wire = NoSend
    /\ nextId = 0
    /\ quota = RegistryMsgs
    /\ timers = {}
    /\ clock = <<>>
    /\ call = NoCall

NextRegistry ==
    \/ \E t \in TopicNames : CallJoin(t, "bob", 1)
    \/ \E t \in TopicNames, u \in KnownNames : CallLeave(t, u)
    \/ \E t \in TopicNames : CallStore(t, "bob")

SpecRegistry == InitRegistry /\ [][NextRegistry]_vars

TypeOK ==
    /\ DOMAIN topics \subseteq TopicNames \cup {"news"}
    /\ \A c \in Conns : OnCpu(pc[c]) \/ pc[c] \in
          {"recv_join", "send_join_error", "close", "send_join_ack", "bcast_send", "recv",
           "send_list", "send_msg_error", "send_ack", "closed"}

\* ================================================================= claims
Range(seq) == {seq[i] : i \in 1..Len(seq)}
Members(t) == IF t \in DOMAIN topics THEN Range(topics[t].users) ELSE {}
BcastLabels == {"bcast_acquire", "bcast_snapshot", "bcast_send"}
\* The handler of c has added its member and has not started to remove it.
Joined(c) ==
    \/ pc[c] \in {"send_join_ack", "recv", "list_acquire", "list_body", "send_list",
                  "send_msg_error", "store_acquire", "store_body", "send_ack",
                  "remove_acquire", "remove_pop_user"}
    \/ pc[c] \in BcastLabels /\ bc[c].ret # "closed"

\* C1: at every point where topics_lock is free, no topic of the registry has
\* zero members (members exist only inside a topic, so a topic with a member
\* is present).
C1_NoEmptyTopic == lock = NoTask => \A t \in DOMAIN topics : topics[t].users # <<>>

\* A handler has removed the last member of its topic and the topic with it,
\* while another topic is still there.
C1_Witness ==
    /\ lock = NoTask
    /\ topics # <<>>
    /\ \E c \in Conns : /\ pc[c] = "closed"
                        /\ Truthy(username[c]) /\ Truthy(topic[c])
                        /\ topic[c] \notin DOMAIN topics

\* C2: two handlers that are joined to the same topic never hold the same
\* username, whatever names their join frames asked for and however their
\* steps interleave, and the member entry under each one's username is its own
\* handle.
C2_DistinctNames ==
    /\ \A c, d \in Conns :
         (c # d /\ Joined(c) /\ Joined(d) /\ topic[c] = topic[d]) => username[c] # username[d]
    /\ \A c \in Conns :
         Joined(c) => [name |-> username[c], ws |-> c] \in Members(topic[c])

\* Two clients asked for the same name in one topic and the later one was
\* given the suffixed name.
C2_Witness ==
    \E c, d \in Conns :
        /\ c # d /\ Joined(c) /\ Joined(d) /\ topic[c] = topic[d]
        /\ username[d] = Suffixed(username[c], 2)
        /\ [name |-> username[c], ws |-> c] \in Members(topic[c])
        /\ [name |-> username[d], ws |-> d] \in Members(topic[d])

\* What the claim says resolve_unique_username returns.
C3_Resolved(tps, t, requested) ==
    IF t \notin DOMAIN tps \/ requested \notin Names(tps[t].users) THEN requested
    ELSE LET used == Names(tps[t].users)
             k == CHOOSE k \in 2..(Len(tps[t].users) + 2) :
                     /\ Suffixed(requested, k) \notin used
                     /\ \A j \in 2..(k - 1) : Suffixed(requested, j) \in used
         IN  Suffixed(requested, k)

\* C3: a join of `requested` into topic t adds exactly the member name the
\* claim describes (requested itself, or requested#k for the first free k from
\* 2 on), which depends on the members of t alone, and leaves the other topics
\* as they were.
C3_ResolveUnique ==
    [][(call'.op = "join" /\ call'.flip # call.flip) =>
          LET t == call'.topic
              before == IF t \in DOMAIN topics THEN Names(topics[t].users) ELSE {}
          IN  /\ Names(topics'[t].users) = before \cup {C3_Resolved(topics, t, call'.username)}
              /\ C3_Resolved(topics, t, call'.username) \notin before
              /\ \A x \in DOMAIN topics \ {t} : x \in DOMAIN topics' /\ topics'[x] = topics[x]
      ]_vars

\* A third "bob" has joined a topic as "bob#3" while the other topic holds a
\* plain "bob".
C3_Witness ==
    /\ call.op = "join" /\ call.username = "bob"
    /\ call.topic \in DOMAIN topics
    /\ Names(topics[call.topic].users) = {"bob", "bob#2", "bob#3"}
    /\ topics[call.topic].users[3].name = "bob#3"
    /\ \E x \in DOMAIN topics \ {call.topic} : Names(topics[x].users) = {"bob"}

\* C4: a leave for a topic that is absent or a username that is not a member
\* of it (which is what a second leave for the same pair is) changes nothing in
\* the registry.
C4_LeaveIdempotent ==
    [][(/\ call'.op = "leave" /\ call'.flip # call.flip
        /\ \/ call'.topic \notin DOMAIN topics
           \/ call'.username \notin Names(topics[call'.topic].users)
           \/ (call.op = "leave" /\ call.topic = call'.topic
                                 /\ call.username = call'.username))
       => topics' = topics
      ]_vars

\* A leave was called for a name that is not in a topic that has members and
\* a stored message.
C4_Witness ==
    /\ call.op = "leave"
    /\ call.topic \in DOMAIN topics
    /\ call.username \notin Names(topics[call.topic].users)
    /\ topics[call.topic].messages # <<>>
    /\ Len(topics[call.topic].users) = 2

\* C5: a handler that has set its (topic, username) pair and is closed has
\* removed its member: the pair is no longer in the topic, whatever strings
\* the client supplied for the two.
C5_CleanupRuns ==
    \A c \in Conns :
        (pc[c] = "closed" /\ username[c] # None /\ topic[c] # None)
            => [name |-> username[c], ws |-> c] \notin Members(topic[c])

\* The members a broadcast into topic t that excludes the name u must reach.
C6_Others(t, u) == {e \in Members(t) : e.name # u}

\* C6: the snapshot of a broadcast is the members of the topic other than the
\* excluded name, each send of the loop goes to the next snapshot entry with
\* the broadcast's payload, and a handler that excludes its own name (chat
\* message, joined notice) is never sent its own broadcast.
C6_BroadcastExcludes ==
    [][\A c \in Conns :
         /\ (pc[c] = "bcast_snapshot" /\ pc'[c] # pc[c])
               => /\ Range(bc'[c].snapshot) = C6_Others(bc[c].topic, bc[c].exclude)
                  /\ bc'[c].recipients = bc'[c].snapshot
                  /\ Len(bc'[c].snapshot) = Cardinality(C6_Others(bc[c].topic, bc[c].exclude))
         /\ (pc[c] = "bcast_send" /\ bc'[c] # bc[c])
               => /\ wire'.to = Head(bc[c].recipients).ws
                  /\ wire'.payload = bc[c].payload
                  /\ Head(bc[c].recipients).name # bc[c].exclude
                  /\ bc[c].exclude = username[c] => wire'.to # c
                  /\ pc'[c] = "bcast_send" => bc'[c].recipients = Tail(bc[c].recipients)
                  /\ pc'[c] # "bcast_send" => Tail(bc[c].recipients) = <<>>
      ]_vars

\* The other member has just been sent the chat message of a sender that is
\* still a member itself and now goes on to its ack.
C6_Witness ==
    \E c \in Conns :
        /\ pc[c] = "send_ack"
        /\ wire.ok /\ wire.to # c /\ wire.payload = payload[c]
        /\ payload[c].username = username[c]
        /\ [name |-> username[c], ws |-> c] \in Members(topic[c])
        /\ wire.to \in Handles(topics[topic[c]].users)

\* C7: whatever the outcome of a send of the broadcast loop, the loop goes on
\* to the next recipient of the snapshot, or returns to its caller after the
\* last one; a recipient whose transport is up is delivered the payload; and
\* the caller of a chat broadcast then sends its ack and, if that is
\* delivered, waits for the next frame.
C7_FailureIsolated ==
    [][\A c \in Conns :
         /\ (pc[c] = "bcast_send" /\ bc'[c] # bc[c])
               => LET r == Head(bc[c].recipients)
                      more == Len(bc[c].recipients) > 1
                  IN  /\ wire'.to = r.ws /\ wire'.payload = bc[c].payload
                      /\ alive[r.ws] => wire'.ok
                      /\ pc'[c] = IF more THEN "bcast_send" ELSE bc[c].ret
                      /\ more => /\ bc'[c].recipients = Tail(bc[c].recipients)
                                 /\ bc'[c].payload = bc[c].payload
                                 /\ bc'[c].ret = bc[c].ret
                      /\ topics' = topics
         /\ (pc[c] = "send_ack" /\ pc'[c] # pc[c] /\ alive[c])
               => /\ wire' = [to |-> c, payload |-> DeliveredAck(payload[c].id), ok |-> TRUE]
                  /\ pc'[c] = "recv"
      ]_vars

\* The send to the first recipient of a chat broadcast has just failed, and
\* the loop stands at the second recipient, whose transport is up.
C7_Witness ==
    \E c \in Conns :
        /\ pc[c] = "bcast_send" /\ bc[c].ret = "send_ack"
        /\ ~wire.ok /\ wire.to = bc[c].snapshot[1].ws /\ wire.payload = bc[c].payload
        /\ bc[c].failed = {wire.to}
        /\ bc[c].recipients = Tail(bc[c].snapshot)
        /\ alive[Head(bc[c].recipients).ws]

\* C8: a stored message is never older than the expiry delay (it is absent at
\* T + 31), and the expiry task never removes one that is younger (it is
\* present at T + 29 while its topic exists).
C8_Lifetime ==
    /\ \A id \in DOMAIN clock : clock[id] <= MESSAGE_EXPIRY_SECONDS
    /\ \A tm \in timers :
         (tm.stage = "body" /\ tm.id \in DOMAIN clock) => clock[tm.id] >= MESSAGE_EXPIRY_SECONDS

\* s without its i-th element.
C9_Without(s, i) == SubSeq(s, 1, i - 1) \o SubSeq(s, i + 1, Len(s))

\* C9: the step in which an expiry task runs its lock region keeps the set of
\* topics, every other topic and the members of its own topic; it deletes the
\* one message of its topic that has its id, keeping the others in order; and
\* with no such topic or message it leaves the registry as it is.
C9_ExpireExact ==
    [][\A tm \in timers :
         (tm.stage = "body" /\ tm \notin timers')
            => /\ DOMAIN topics' = DOMAIN topics
               /\ \A x \in DOMAIN topics \ {tm.topic} : topics'[x] = topics[x]
               /\ tm.topic \in DOMAIN topics =>
                    LET ms == topics[tm.topic].messages
                        hits == {i \in 1..Len(ms) : ms[i].id = tm.id}
                    IN  /\ topics'[tm.topic].users = topics[tm.topic].users
                        /\ Cardinality(hits) <= 1
                        /\ hits = {} => topics' = topics
                        /\ \A i \in hits : topics'[tm.topic].messages = C9_Without(ms, i)
      ]_vars

\* An expiry task holds the lock for a message whose topic was deleted and
\* re-created: the topic is there with a newer message, the id is not.
C9_Witness ==
    \E tm \in timers :
        /\ tm.stage = "body"
        /\ tm.topic \in DOMAIN topics
        /\ topics[tm.topic].messages # <<>>
        /\ tm.id \notin MsgIds(topics[tm.topic].messages)

\* C10: a first frame that is no JSON object, or lacks username or topic, or
\* has a non-string one, sends its connection the error payload and closes it:
\* the handler never sets its pair, is never a member, starts no broadcast and
\* no removal, and its steps leave the registry as it is.
C10_BadJoinRejected ==
    [][\A c \in Conns :
         /\ (pc[c] = "recv_join" /\ pc'[c] # pc[c] /\ frame'[c] \in BadJoinFrames)
               => pc'[c] = "send_join_error"
         /\ (pc[c] = "send_join_error" /\ pc'[c] # pc[c])
               => /\ wire' = [to |-> c, payload |-> JoinErrorPayload, ok |-> alive[c]]
                  /\ pc'[c] = IF alive[c] THEN "close" ELSE "closed"
                  /\ topics' = topics
         /\ (pc[c] = "close" /\ pc'[c] # pc[c])
               => pc'[c] = "closed" /\ ~alive'[c] /\ topics' = topics /\ wire' = NoSend
         /\ pc'[c] \in {"send_join_error", "close"}
               => /\ username'[c] = None /\ topic'[c] = None /\ bc'[c] = NoBc
                  /\ \A t \in DOMAIN topics' : c \notin Handles(topics'[t].users)
         /\ (pc'[c] = "closed" /\ username'[c] = None)
               => \A t \in DOMAIN topics' : c \notin Handles(topics'[t].users)
      ]_vars

\* A connection has been sent the error payload and is about to be closed,
\* while another one is a member of a topic.
C10_Witness ==
    \E c \in Conns :
        /\ pc[c] = "close"
        /\ wire = [to |-> c, payload |-> JoinErrorPayload, ok |-> TRUE]
        /\ topics # <<>>

\* The joined notice of the handler of c.
C11_Notice(c) == Notice(username[c], "joined")

\* C11: a valid join frame makes its handler resolve the name (the requested
\* one, or requested#k for the first free k from 2), add exactly one member
\* under it with its own handle, creating the topic if needed, and only in
\* the step after that send its connection the ack with that name and topic;
\* the joined notice then goes to the members other than the joiner, and no
\* step ever sends a connection its own joined notice.
C11_JoinSequence ==
    [][\A c \in Conns :
         /\ (pc[c] = "resolve_body" /\ pc'[c] # pc[c])
               => /\ username'[c] = C3_Resolved(topics, frame[c].topic.val, frame[c].username.val)
                  /\ topic'[c] = frame[c].topic.val
                  /\ topics' = topics /\ wire' = NoSend
         /\ (pc[c] = "add_body" /\ pc'[c] # pc[c])
               => /\ Members(topic[c])' = Members(topic[c]) \cup {[name |-> username[c], ws |-> c]}
                  /\ Len(topics'[topic[c]].users) = Cardinality(Members(topic[c])) + 1
                  /\ \A x \in DOMAIN topics \ {topic[c]} : topics'[x] = topics[x]
                  /\ wire' = NoSend
                  /\ pc'[c] = "send_join_ack"
         /\ (wire'.to = c /\ wire'.payload = JoinAck(username[c], topic[c]))
               => /\ pc[c] = "send_join_ack"
                  /\ [name |-> username[c], ws |-> c] \in Members(topic[c])
         /\ (pc[c] = "send_join_ack" /\ pc'[c] # pc[c])
               => /\ wire' = [to |-> c, payload |-> JoinAck(username[c], topic[c]), ok |-> alive[c]]
                  /\ alive[c] => /\ pc'[c] = "bcast_acquire"
                                 /\ bc'[c].payload = C11_Notice(c)
                                 /\ bc'[c].topic = topic[c]
                                 /\ bc'[c].ret = "recv"
         /\ (pc[c] = "bcast_snapshot" /\ pc'[c] # pc[c] /\ bc[c].payload = C11_Notice(c))
               => Range(bc'[c].recipients) = Members(topic[c]) \ {[name |-> username[c], ws |-> c]}
         /\ (pc[c] = "bcast_send" /\ bc'[c] # bc[c] /\ bc[c].payload = C11_Notice(c))
               => /\ wire'.payload = C11_Notice(c)
                  /\ wire'.to = Head(bc[c].recipients).ws
         /\ wire'.payload = C11_Notice(c) => wire'.to # c
      ]_vars

\* The second bob of a topic has joined as bob#2 and the first one has just
\* been sent the joined notice.
C11_Witness ==
    \E c, d \in Conns :
        /\ c # d /\ pc[c] = "recv" /\ username[c] = "bob#2"
        /\ wire = [to |-> d, payload |-> C11_Notice(c), ok |-> TRUE]
        /\ [name |-> "bob", ws |-> d] \in Members(topic[c])
        /\ [name |-> "bob#2", ws |-> c] \in Members(topic[c])

\* The handler of c is between building a message and the end of its ack.
C12_InFlight(c) ==
    \/ pc[c] \in {"store_acquire", "store_body", "send_ack"}
    \/ pc[c] \in BcastLabels /\ bc[c].ret = "send_ack"
\* The frames that produce a message.
C12_ChatFrames == {ChatJson(b) : b \in Bodies} \cup {RawText(b) : b \in Bodies}
\* The number of messages stored in all topics.
RECURSIVE C12_Stored(_)
C12_Stored(ts) ==
    IF ts = {} THEN 0
    ELSE LET t == CHOOSE t \in ts : TRUE
         IN  Len(topics[t].messages) + C12_Stored(ts \ {t})

\* C12: a chat frame makes its handler build one message whose id no stored or
\* pending message has and whose author is the handler's username; the lock
\* region appends exactly that message to the handler's topic; the broadcast
\* sends and the delivered ack carry its id; and the stored messages of all
\* topics have distinct ids.
C12_OneMessagePerFrame ==
    [][/\ C12_Stored(DOMAIN topics)' = Cardinality(StoredIds(topics))'
       /\ \A c \in Conns :
         /\ (pc[c] = "recv" /\ pc'[c] # pc[c] /\ frame'[c] \in C12_ChatFrames)
               => /\ payload'[c].username = username[c]
                  /\ payload'[c].message \in Bodies
                  /\ payload'[c].id \notin StoredIds(topics)
                  /\ \A d \in Conns : C12_InFlight(d) => payload[d].id # payload'[c].id
                  /\ \A tm \in timers : tm.id # payload'[c].id
                  /\ pc'[c] = "store_acquire" /\ topics' = topics /\ wire' = NoSend
         /\ (pc[c] = "store_body" /\ pc'[c] # pc[c])
               => /\ topic[c] \in DOMAIN topics
                  /\ topics'[topic[c]].messages = Append(topics[topic[c]].messages, payload[c])
                  /\ topics'[topic[c]].users = topics[topic[c]].users
                  /\ \A x \in DOMAIN topics \ {topic[c]} : topics'[x] = topics[x]
                  /\ DOMAIN topics' = DOMAIN topics
                  /\ bc'[c].payload = payload[c] /\ bc'[c].exclude = username[c]
         /\ (pc[c] = "bcast_send" /\ bc'[c] # bc[c] /\ bc[c].ret = "send_ack")
               => wire'.payload = payload[c] /\ wire'.to # c
         /\ (pc[c] = "send_ack" /\ pc'[c] # pc[c])
               => /\ wire' = [to |-> c, payload |-> DeliveredAck(payload[c].id), ok |-> alive[c]]
                  /\ payload[c] \in Range(topics[topic[c]].messages)
      ]_vars

\* The sender has just been sent the ack of its second message; both are
\* stored in its topic under its name, and another member is there.
C12_Witness ==
    \E c \in Conns :
        /\ pc[c] = "recv" /\ wire.to = c /\ wire.ok
        /\ wire.payload = DeliveredAck(2)
        /\ Len(topics[topic[c]].messages) = 2
        /\ \A i \in 1..2 : /\ topics[topic[c]].messages[i].id = i
                           /\ topics[topic[c]].messages[i].username = username[c]
        /\ Len(topics[topic[c]].users) = 2

\* The line of topic t in a listing, from the members now in the registry.
C13_Line(t) == t \o " (" \o ToString(Cardinality(Members(t))) \o " users)"
\* The handler of c is answering a /list frame.
C13_Listing(c) == pc[c] \in {"list_acquire", "list_body", "send_list"}

\* The frame part of C13: a /list frame draws no id, stores nothing, starts no
\* broadcast and no timer and leaves the registry alone; its lock region
\* snapshots one line per topic of the registry with the member count, which
\* is at least 1; the answer goes to the requester alone, who then waits for
\* the next frame.
C13_ListStep(c) ==
    /\ (pc[c] = "recv" /\ pc'[c] # pc[c] /\ frame'[c] = ListFrame)
          => pc'[c] = "list_acquire" /\ payload'[c] = payload[c]
    /\ (C13_Listing(c) /\ pc'[c] # pc[c])
          => /\ topics' = topics /\ timers' = timers /\ nextId' = nextId
             /\ bc' = bc /\ bc[c] = NoBc
             /\ pc'[c] \in {"list_body", "send_list", "recv", "closed", "remove_acquire"}
    /\ (pc[c] = "list_body" /\ pc'[c] # pc[c])
          => /\ payload'[c] = [active_topics |-> {C13_Line(t) : t \in DOMAIN topics}]
             /\ \A t \in DOMAIN topics : Cardinality(Members(t)) >= 1
             /\ wire' = NoSend
    /\ (pc[c] = "send_list" /\ pc'[c] # pc[c])
          => /\ wire' = [to |-> c, payload |-> payload[c], ok |-> alive[c]]
             /\ alive[c] => pc'[c] = "recv"

\* C13: the frame part for every handler, and a listing never shows a topic
\* all of whose members belong to handlers that have finished.
C13_ListAnswer ==
    [][\A c \in Conns :
         /\ C13_ListStep(c)
         /\ (pc[c] = "list_body" /\ pc'[c] # pc[c])
               => \A t \in DOMAIN topics : \E e \in Members(t) : pc[e.ws] # "closed"
      ]_vars

\* The error half of C14: a frame that parses as JSON and is no object with a
\* message field draws no id, stores nothing, starts no broadcast and no
\* timer, leaves the registry alone, and is answered with the error payload to
\* the requester alone, who then waits for the next frame.
C14_ErrorStep(c) ==
    /\ (/\ pc[c] = "recv" /\ pc'[c] # pc[c] /\ alive[c]
        /\ frame'[c].json # "invalid"
        /\ ~(frame'[c].json = "dict" /\ "message" \in frame'[c].keys))
          => /\ pc'[c] = "send_msg_error"
             /\ payload'[c] = payload[c] /\ nextId' = nextId
             /\ topics' = topics /\ wire' = NoSend
    /\ (pc[c] = "send_msg_error" /\ pc'[c] # pc[c])
          => /\ wire' = [to |-> c, payload |-> MsgErrorPayload, ok |-> alive[c]]
             /\ topics' = topics /\ timers' = timers /\ nextId' = nextId
             /\ bc' = bc /\ bc[c] = NoBc
             /\ alive[c] => pc'[c] = "recv"

\* The received frame becomes a chat message whose body is its raw text.
C14_ChatOfRaw(c) ==
    /\ pc'[c] = "store_acquire"
    /\ payload'[c] = [id |-> nextId', username |-> username[c], message |-> frame'[c].raw]

\* C14 to the letter: the error half, and every frame that does not parse as
\* JSON and whose text is not exactly /list becomes a chat message with the
\* raw text.
C14_AsStated ==
    [][\A c \in Conns :
         /\ C14_ErrorStep(c)
         /\ (/\ pc[c] = "recv" /\ pc'[c] # pc[c] /\ alive[c]
             /\ frame'[c].json = "invalid" /\ frame'[c].raw # "/list")
               => C14_ChatOfRaw(c)
      ]_vars

\* C14, with /list read as the handler reads it: a frame that parses as JSON
\* and has no message field is answered with the error payload to the
\* requester alone and creates no message, whether or not that send succeeds;
\* every frame that does not parse as JSON becomes a chat message with the raw
\* text unless its text is /list once the whitespace at its ends is removed;
\* such a frame is answered as /list.
C14_ErrorOrChat ==
    [][\A c \in Conns :
         /\ C14_ErrorStep(c)
         /\ (/\ pc[c] = "recv" /\ pc'[c] # pc[c] /\ alive[c]
             /\ frame'[c].json = "invalid" /\ frame'[c].raw \notin {"/list", " /list "})
               => C14_ChatOfRaw(c)
         /\ (/\ pc[c] = "recv" /\ pc'[c] # pc[c] /\ alive[c]
             /\ frame'[c].raw \in {"/list", " /list "})
               => /\ pc'[c] = "list_acquire"
                  /\ payload'[c] = payload[c] /\ nextId' = nextId
      ]_vars

\* C14 for the error sends that succeed: the same, with nothing said about a
\* handler whose connection is gone when it sends the error payload.
C14_WhileConnected ==
    [][\A c \in Conns :
         /\ (pc[c] = "send_msg_error" => alive[c]) => C14_ErrorStep(c)
         /\ (/\ pc[c] = "recv" /\ pc'[c] # pc[c] /\ alive[c]
             /\ frame'[c].json = "invalid" /\ frame'[c].raw \notin {"/list", " /list "})
               => C14_ChatOfRaw(c)
         /\ (/\ pc[c] = "recv" /\ pc'[c] # pc[c] /\ alive[c]
             /\ frame'[c].raw \in {"/list", " /list "})
               => /\ pc'[c] = "list_acquire"
                  /\ payload'[c] = payload[c] /\ nextId' = nextId
      ]_vars

\* A member of a topic of two has just been sent the error payload and waits
\* for its next frame.
C14_Witness ==
    \E c \in Conns :
        /\ pc[c] = "recv"
        /\ wire = [to |-> c, payload |-> MsgErrorPayload, ok |-> TRUE]
        /\ Len(topics[topic[c]].users) = 2
        /\ topics[topic[c]].messages = <<>>

\* C15: every stored message has exactly one expiry task: once the handler
\* that stored it has finished with its frame, a task created for its id is
\* pending, and no id ever has two tasks.
C15_OneExpiryPerMessage ==
    /\ \A id \in StoredIds(topics) :
         \/ \E c \in Conns : C12_InFlight(c) /\ payload[c].id = id
         \/ \E tm \in timers : tm.id = id
    /\ \A tm, tn \in timers : tm.id = tn.id => tm = tn

\* The labels inside an `async with topics_lock` block.
C16_LockBodies ==
    {"resolve_body", "add_body", "bcast_snapshot", "list_body", "store_body",
     "remove_pop_user", "remove_pop_topic"}
\* The tasks that are inside a lock region.
C16_Inside ==
    Cardinality({c \in Conns : pc[c] \in C16_LockBodies})
        + Cardinality({tm \in timers : tm.stage = "body"})

\* C16: a step that calls send_text starts and ends with the lock free; a
\* step that changes the registry is taken by the task that holds the lock;
\* a handler that reads the registry (name resolution, snapshot, listing)
\* holds it; the lock is taken only when it is free; and the tasks inside a
\* lock region are none when the lock is free and one when it is held.
C16_LockDiscipline ==
    [][/\ wire' # NoSend => lock = NoTask /\ lock' = NoTask
       /\ topics' # topics =>
            \/ \E c \in Conns : lock = WsTask(c) /\ pc[c] \in C16_LockBodies /\ pc'[c] # pc[c]
            \/ \E tm \in timers : lock = ExpTask(tm.id) /\ tm.stage = "body" /\ tm \notin timers'
       /\ \A c \in Conns : pc'[c] \in C16_LockBodies => lock' = WsTask(c)
       /\ \A tm \in timers' : tm.stage = "body" => lock' = ExpTask(tm.id)
       /\ (lock' # lock /\ lock' # NoTask) => lock = NoTask
       /\ C16_Inside' = IF lock' = NoTask THEN 0 ELSE 1
      ]_vars

\* A member has just been sent another member's chat message with the lock
\* free, while an expiry task whose sleep has run out waits to take it.
C16_Witness ==
    /\ lock = NoTask
    /\ wire.ok /\ wire.payload \in {ChatPayload(i, "bob", "hi") : i \in 1..MaxMsgs}
    /\ \E tm \in timers : tm.stage = "sleep" /\ tm.remaining = 0
    /\ \E c \in Conns : pc[c] = "send_ack" /\ wire.to # c

\* The messages of one author are stored in the order of their ids, which is
\* the order in which their frames were received.
C17_StoredInOrder ==
    \A t \in DOMAIN topics :
        LET ms == topics[t].messages
        IN  \A i, j \in 1..Len(ms) :
                (i < j /\ ms[i].username = ms[j].username) => ms[i].id < ms[j].id

\* C17: a handler takes its next frame only when nothing of the previous one
\* is pending; it keeps working on the same message from the receipt of a
\* chat frame to its ack; while a copy of that message is sent, no later
\* message of the same sender exists in the topic; and the stored messages of
\* one sender are in the order of their frames.
C17_OneFrameAtATime ==
    [][/\ C17_StoredInOrder'
       /\ \A c \in Conns :
         /\ (pc[c] = "recv" /\ pc'[c] # pc[c]) => bc[c] = NoBc /\ payload[c] = NoMsg
         /\ (C12_InFlight(c) /\ C12_InFlight(c)') => payload'[c] = payload[c]
         /\ (C12_InFlight(c) /\ pc'[c] # pc[c] /\ ~C12_InFlight(c)')
               => pc[c] = "send_ack"
         /\ (pc[c] = "bcast_send" /\ bc'[c] # bc[c] /\ bc[c].ret = "send_ack")
               => /\ wire'.payload = payload[c]
                  /\ payload[c].id <= nextId
                  /\ \A m \in Range(topics[topic[c]].messages) :
                        m.username = username[c] => m.id <= payload[c].id
         /\ (pc[c] = "recv" /\ pc'[c] = "store_acquire")
               => payload'[c].id > nextId
      ]_vars

\* The other member has just been sent the second message of a sender whose
\* two messages are stored in the order of their frames.
C17_Witness ==
    \E c \in Conns :
        /\ pc[c] = "send_ack" /\ payload[c].id = 2
        /\ wire.ok /\ wire.to # c /\ wire.payload = payload[c]
        /\ Len(topics[topic[c]].messages) = 2
        /\ topics[topic[c]].messages[1] = ChatPayload(1, username[c], "hi")
        /\ topics[topic[c]].messages[2] = payload[c]

\* The next step of the handler of c.
C18_HandlerStep(c) == JoinPhase(c) \/ Established(c)
\* Expiry tasks exist and all of them are asleep or waiting for the lock.
C18_TimersPending == timers # {} /\ \A tm \in timers : tm.stage = "sleep"
\* The event loop can run the handler of c: it is on the CPU, or no task is
\* and its frame is the next to arrive.
C18_Runnable(c) ==
    /\ pc[c] # "closed"
    /\ \/ pc[c] \in CpuLabels
       \/ /\ \A d \in Conns : pc[d] \notin CpuLabels
          /\ pc[c] = "recv_join" => \A d \in Conns : d < c => pc[d] # "recv_join"

\* While expiry tasks are pending, every handler the event loop can run has a
\* step to take.
C18_Unblocked ==
    C18_TimersPending =>
        \A c \in Conns : C18_Runnable(c) => ENABLED C18_HandlerStep(c)

\* C18: while expiry tasks are pending, every handler the event loop can run
\* has a step to take (join, chat, /list, error answer, leave); and the step
\* that sends the ack hands the handler back to receive_text with the new
\* task asleep.
C18_ExpiryDoesNotBlock ==
    /\ []C18_Unblocked
    /\ [][\A c \in Conns :
            (pc[c] = "send_ack" /\ pc'[c] # pc[c] /\ alive[c])
               => /\ pc'[c] = "recv"
                  /\ \E tm \in timers' \ timers :
                        /\ tm.id = payload[c].id /\ tm.topic = topic[c]
                        /\ tm.stage = "sleep" /\ tm.remaining = MESSAGE_EXPIRY_SECONDS
      ]_vars

\* A sender whose message is stored and has its expiry task asleep has since
\* sent /list and been answered, and the other connection is about to join.
C18_Witness ==
    \E c, d \in Conns :
        /\ pc[c] = "recv" /\ wire.to = c /\ wire.ok
        /\ wire.payload = ListPayload(topics)
        /\ \E tm \in timers : /\ tm.stage = "sleep" /\ tm.remaining > 0
                                /\ tm.topic = topic[c]
                                /\ ChatPayload(tm.id, username[c], "hi")
                                      \in Range(topics[topic[c]].messages)
        /\ pc[d] = "recv_join" /\ alive[d]

\* C19: the lock region that stores a chat message changes the messages of
\* the sender's topic alone, so no id is stored in two topics; the snapshot
\* of its broadcast holds members of that topic only; and each copy is sent
\* to a handle of that snapshot, whose connection joined the sender's topic
\* and no other.
C19_TopicsIsolated ==
    [][/\ \A t, x \in DOMAIN topics' :
            t # x => MsgIds(topics'[t].messages) \cap MsgIds(topics'[x].messages) = {}
       /\ \A c \in Conns :
         /\ (pc[c] = "store_body" /\ pc'[c] # pc[c])
               => /\ \A x \in DOMAIN topics' \ {topic[c]} :
                        /\ x \in DOMAIN topics /\ topics'[x] = topics[x]
                        /\ payload[c].id \notin MsgIds(topics'[x].messages)
                  /\ payload[c] \in Range(topics'[topic[c]].messages)
         /\ (pc[c] = "bcast_snapshot" /\ pc'[c] # pc[c] /\ bc[c].ret = "send_ack")
               => /\ bc[c].topic = topic[c]
                  /\ Range(bc'[c].snapshot) \subseteq Members(topic[c])
         /\ (pc[c] = "bcast_send" /\ bc'[c] # bc[c] /\ bc[c].ret = "send_ack")
               => /\ wire'.to \in Handles(bc[c].snapshot)
                  /\ topic[wire'.to] = topic[c]
                  /\ \A x \in DOMAIN topics \ {topic[c]} :
                        payload[c].id \notin MsgIds(topics[x].messages)
      ]_vars

\* A member of sports has just been sent another member's message, which is
\* stored in sports, while news has a member waiting for frames and no message.
C19_Witness ==
    \E c, d, e \in Conns :
        /\ pc[c] = "send_ack" /\ topic[c] = "sports" /\ topic[d] = "sports" /\ d # c
        /\ wire = [to |-> d, payload |-> payload[c], ok |-> TRUE]
        /\ payload[c] \in Range(topics["sports"].messages)
        /\ topic[e] = "news" /\ pc[e] = "recv" /\ alive[e]
        /\ "news" \in DOMAIN topics /\ topics["news"].messages = <<>>
        /\ e \in Handles(topics["news"].users)

\* C20: a handler that is joined has its entry in its topic, under its
\* username and with its own handle; no member entry refers to the connection
\* of a handler that has finished; and with every handler finished the
\* registry is empty.
C20_MembersAreLive ==
    /\ \A c \in Conns :
         Joined(c) => /\ topic[c] \in DOMAIN topics
                      /\ username[c] \in Names(topics[topic[c]].users)
                      /\ HandleOf(topics[topic[c]].users, username[c]) = c
    /\ \A c \in Conns :
         pc[c] = "closed" => \A t \in DOMAIN topics : c \notin Handles(topics[t].users)
    /\ (\A c \in Conns : pc[c] = "closed") => topics = <<>>

====
